---- MODULE Spec2Model ----
(***************************************************************************)
(* Verification model of ts-in-memory-debounce.                            *)
(*                                                                         *)
(*  - Record store: InMemoryStorage (the validated, copying version).      *)
(*    Records and tag arrays are heap objects, so that aliasing between    *)
(*    the store and its caller is something the model can exhibit.         *)
(*  - Debounce controller: debounce() of utils/debounce.ts, driven by a    *)
(*    discrete clock and a timer table (setTimeout / clearTimeout).        *)
(***************************************************************************)
EXTENDS Integers, Sequences, FiniteSets, TLC

\* ------------------------------------------------------------------ bounds
MaxTags == 3        \* longest tags array a caller grows by pushing
MaxMutations == 1   \* mutations a caller makes between two store calls

\* ------------------------------------------------------------ JS values
\* JavaScript values that reach the store are written as strings; the ones
\* starting with # stand for values that are not strings.
NUM == "#7"             \* a number
NULLV == "#null"        \* null
UNDEF == "#undefined"   \* undefined (absent property / argument)

GoodIds == {"1", "2"}
IdVals == GoodIds \cup {"", " ", NUM}
GoodTags == {"a", "b"}

\* typeof v === 'string'
IsString(v) == v \notin {NUM, NULLV, UNDEF}
\* !v
Falsy(v) == v \in {"", NULLV, UNDEF}
\* v.trim()
Trim(v) == IF v = " " THEN "" ELSE v

\* a tags property that is not an array
NotArray == 0
\* no object at all (null passed as the record)
NoObj == 0

\* the tags arrays callers pass (order and duplicates are kept as supplied)
TagLists == {<<>>, <<"a">>, <<"b">>, <<"a", "b">>, <<"b", "a">>, <<"a", "a">>}

\* --------------------------------------------------------------- state
VARIABLES
  records,   \* Map<string, Record>: entries <<key, obj>> in insertion order
  objs,      \* heap of record objects: ref -> [id, tags]
  arrs,      \* heap of arrays: ref -> sequence of elements
  held,      \* record objects the caller still holds (argument or result)
  muts,      \* mutations the caller made since its last store call
  hist,      \* per id, what the caller's calls so far did to it:
             \* "never" added, "live" (added, not removed since), "gone"
  sop,       \* last store operation
  sarg,      \* its argument
  sret,      \* its return value
  serr,      \* code of the StorageError it raised, or "none"
  aliased    \* the last call handed the caller, or kept, a shared reference

storeVars == <<records, objs, arrs, held, muts, hist, sop, sarg, sret, serr, aliased>>

\* ------------------------------------------------------------- heap
\* the reference a new allocation gets
Fresh(h) ==
  CHOOSE r \in 1..(Cardinality(DOMAIN h) + 1) :
    r \notin DOMAIN h /\ \A q \in 1..(r - 1) : q \in DOMAIN h

Range(s) == {s[i] : i \in DOMAIN s}

\* ----------------------------------------------------- Map<string, Record>
\* Map.prototype.has
MapHas(m, k) == \E i \in DOMAIN m : m[i].key = k

\* Map.prototype.set: replaces in place, or appends
MapSet(m, k, o) ==
  IF MapHas(m, k)
    THEN [i \in DOMAIN m |-> IF m[i].key = k THEN [key |-> k, obj |-> o] ELSE m[i]]
    ELSE Append(m, [key |-> k, obj |-> o])

\* Map.prototype.delete (the map after it)
MapDelete(m, k) == SelectSeq(m, LAMBDA e : e.key # k)

\* [...array]
Spread(s) == [i \in 1..Len(s) |-> s[i]]

\* The store as a machine state the methods transform.
MachineOf(recs, ob, ar) == [records |-> recs, objs |-> ob, arrs |-> ar,
                            err |-> "none", ret |-> UNDEF, out |-> <<>>]

Machine == MachineOf(records, objs, arrs)

Throw(M, code) == [M EXCEPT !.err = code]

\* ------------------------------------------------------ InMemoryStorage
validateRecord(M, o) ==
  IF o = NoObj THEN "INVALID_RECORD"
  ELSE IF Falsy(M.objs[o].id) \/ ~IsString(M.objs[o].id) \/ Falsy(Trim(M.objs[o].id))
    THEN "INVALID_ID"
  ELSE IF M.objs[o].tags = NotArray THEN "INVALID_TAGS"
  ELSE IF \E i \in DOMAIN M.arrs[M.objs[o].tags] : ~IsString(M.arrs[M.objs[o].tags][i])
    THEN "INVALID_TAG_TYPE"
  ELSE "OK"

\* copyRecord without the spread: the copy keeps the original's tags array
copyRecord_sharesTags(M, o) ==
  LET c == Fresh(M.objs)
  IN [M EXCEPT !.objs = M.objs @@ (c :> [id |-> M.objs[o].id, tags |-> M.objs[o].tags]),
               !.ret = c]

\* { id: record.id, tags: [...record.tags] } as a new object
copyRecord(M, o) ==
  LET a == Fresh(M.arrs)
      c == Fresh(M.objs)
  IN [M EXCEPT !.arrs = M.arrs @@ (a :> Spread(M.arrs[M.objs[o].tags])),
               !.objs = M.objs @@ (c :> [id |-> M.objs[o].id, tags |-> a]),
               !.ret = c]

\* add without the duplicate check: Map.set overwrites the stored record
add_overwrites(M, o) ==
  LET v == validateRecord(M, o) IN
  IF v # "OK" THEN Throw(M, v)
  ELSE LET C == copyRecord(M, o)
       IN [C EXCEPT !.records = MapSet(M.records, M.objs[o].id, C.ret),
                    !.ret = UNDEF]

\* add as the first version of the store wrote it: no copy, the caller's
\* object itself goes into the map
add_keepsCallerObject(M, o) ==
  LET v == validateRecord(M, o) IN
  IF v # "OK" THEN Throw(M, v)
  ELSE IF MapHas(M.records, M.objs[o].id) THEN Throw(M, "DUPLICATE_ID")
  ELSE [M EXCEPT !.records = MapSet(M.records, M.objs[o].id, o)]

add(M, o) ==
  LET v == validateRecord(M, o) IN
  IF v # "OK" THEN Throw(M, v)
  ELSE IF MapHas(M.records, M.objs[o].id) THEN Throw(M, "DUPLICATE_ID")
  ELSE LET C == copyRecord(M, o)
       IN [C EXCEPT !.records = MapSet(M.records, M.objs[o].id, C.ret),
                    !.ret = UNDEF]

\* update without the presence check: inserts when the id is absent
update_upserts(M, o) ==
  LET v == validateRecord(M, o) IN
  IF v # "OK" THEN Throw(M, v)
  ELSE LET C == copyRecord(M, o)
       IN [C EXCEPT !.records = MapSet(M.records, M.objs[o].id, C.ret),
                    !.ret = UNDEF]

\* update that merges: the new tags are appended to the stored ones
update_mergesTags(M, o) ==
  LET v == validateRecord(M, o) IN
  IF v # "OK" THEN Throw(M, v)
  ELSE IF ~MapHas(M.records, M.objs[o].id) THEN Throw(M, "RECORD_NOT_FOUND")
  ELSE LET old == CHOOSE e \in Range(M.records) : e.key = M.objs[o].id
           C == copyRecord(M, o)
       IN [C EXCEPT !.records = MapSet(M.records, M.objs[o].id, C.ret),
                    !.arrs[C.objs[C.ret].tags] = M.arrs[M.objs[old.obj].tags] \o @,
                    !.ret = UNDEF]

\* update that validates the tags' elements only after Map.set
update_validatesLate(M, o) ==
  IF o = NoObj THEN Throw(M, "INVALID_RECORD")
  ELSE IF Falsy(M.objs[o].id) \/ ~IsString(M.objs[o].id) \/ Falsy(Trim(M.objs[o].id))
    THEN Throw(M, "INVALID_ID")
  ELSE IF M.objs[o].tags = NotArray THEN Throw(M, "INVALID_TAGS")
  ELSE IF ~MapHas(M.records, M.objs[o].id) THEN Throw(M, "RECORD_NOT_FOUND")
  ELSE LET C == copyRecord(M, o)
       IN [C EXCEPT !.records = MapSet(M.records, M.objs[o].id, C.ret),
                    !.ret = UNDEF,
                    !.err = IF validateRecord(M, o) = "OK" THEN "none"
                            ELSE validateRecord(M, o)]

update(M, o) ==
  LET v == validateRecord(M, o) IN
  IF v # "OK" THEN Throw(M, v)
  ELSE IF ~MapHas(M.records, M.objs[o].id) THEN Throw(M, "RECORD_NOT_FOUND")
  ELSE LET C == copyRecord(M, o)
       IN [C EXCEPT !.records = MapSet(M.records, M.objs[o].id, C.ret),
                    !.ret = UNDEF]

\* remove that reports success whether or not the id was there
remove_alwaysTrue(M, id) ==
  IF Falsy(id) \/ ~IsString(id) \/ Falsy(Trim(id)) THEN Throw(M, "INVALID_ID")
  ELSE [M EXCEPT !.records = MapDelete(M.records, id),
                 !.ret = TRUE]

remove(M, id) ==
  IF Falsy(id) \/ ~IsString(id) \/ Falsy(Trim(id)) THEN Throw(M, "INVALID_ID")
  ELSE [M EXCEPT !.records = MapDelete(M.records, id),
                 !.ret = MapHas(M.records, id)]

\* exists with the id test of remove: a malformed id raises
exists_strict(M, id) ==
  IF Falsy(id) \/ ~IsString(id) \/ Falsy(Trim(id)) THEN Throw(M, "INVALID_ID")
  ELSE [M EXCEPT !.ret = MapHas(M.records, id)]

exists(M, id) ==
  IF Falsy(id) \/ ~IsString(id) THEN [M EXCEPT !.ret = FALSE]
  ELSE [M EXCEPT !.ret = MapHas(M.records, id)]

size(M) == [M EXCEPT !.ret = Len(M.records)]

clear(M) == [M EXCEPT !.records = <<>>]

\* matchesCriteria with `||` for `&&`
matchesCriteria_or(M, o, c) ==
  LET idMatch == Falsy(c.id) \/ M.objs[o].id = c.id
      tagsMatch == \/ c.tkind = "undefined"
                   \/ Len(c.elems) = 0
                   \/ \A i \in DOMAIN c.elems :
                        c.elems[i] \in Range(M.arrs[M.objs[o].tags])
  IN idMatch \/ tagsMatch

\* matchesCriteria with `some` for `every`: one shared tag is enough
matchesCriteria_some(M, o, c) ==
  LET idMatch == Falsy(c.id) \/ M.objs[o].id = c.id
      tagsMatch == \/ c.tkind = "undefined"
                   \/ Len(c.elems) = 0
                   \/ \E i \in DOMAIN c.elems :
                        c.elems[i] \in Range(M.arrs[M.objs[o].tags])
  IN idMatch /\ tagsMatch

\* record.tags.includes(tag) for every tag of the criteria
matchesCriteria(M, o, c) ==
  LET idMatch == Falsy(c.id) \/ M.objs[o].id = c.id
      tagsMatch == \/ c.tkind = "undefined"
                   \/ Len(c.elems) = 0
                   \/ \A i \in DOMAIN c.elems :
                        c.elems[i] \in Range(M.arrs[M.objs[o].tags])
  IN idMatch /\ tagsMatch

validateQueryCriteria(c) ==
  IF c.id # UNDEF /\ (~IsString(c.id) \/ Falsy(Trim(c.id))) THEN "INVALID_CRITERIA_ID"
  ELSE IF c.tkind # "undefined" /\ c.tkind # "array" THEN "INVALID_CRITERIA_TAGS"
  ELSE IF c.tkind = "array" /\ \E i \in DOMAIN c.elems : ~IsString(c.elems[i])
    THEN "INVALID_CRITERIA_TAG_TYPE"
  ELSE "OK"

\* the loop `for (const record of this.records.values()) results.push(copy)`
\* from entry i on, over the entries selected by keep
RECURSIVE copyFrom(_, _, _)
copyFrom(M, i, keep) ==
  IF i > Len(M.records) THEN M
  ELSE IF i \in keep
    THEN LET C == copyRecord(M, M.records[i].obj)
         IN copyFrom([C EXCEPT !.out = Append(M.out, C.ret), !.ret = UNDEF], i + 1, keep)
    ELSE copyFrom(M, i + 1, keep)

getAllRecords(M) == copyFrom(M, 1, DOMAIN M.records)

query(M, c) ==
  LET v == IF c.given THEN validateQueryCriteria(c) ELSE "OK" IN
  IF v # "OK" THEN Throw(M, v)
  ELSE IF ~c.given \/ (Falsy(c.id) /\ c.tkind = "undefined") THEN getAllRecords(M)
  ELSE copyFrom(M, 1, {i \in DOMAIN M.records : matchesCriteria(M, M.records[i].obj, c)})

\* ------------------------------------------------------------ the caller
\* what a caller passes as a record: an object literal, or no object
RecordInput(idv, isArr, elems) == [obj |-> TRUE, id |-> idv, isArr |-> isArr, tags |-> elems]

ValidRecords == {RecordInput(i, TRUE, t) : i \in GoodIds, t \in TagLists}

InvalidRecords ==
  { [obj |-> FALSE, id |-> UNDEF, isArr |-> FALSE, tags |-> <<>>],
    RecordInput("", TRUE, <<>>),
    RecordInput(" ", TRUE, <<"a">>),
    RecordInput(NUM, TRUE, <<>>),
    RecordInput("1", FALSE, <<>>),
    RecordInput("2", TRUE, <<"a", NUM>>) }

RecordInputs == ValidRecords \cup InvalidRecords

CriteriaInput(idv, kind, elems) == [given |-> TRUE, id |-> idv, tkind |-> kind, elems |-> elems]

NoCriteria == [given |-> FALSE, id |-> UNDEF, tkind |-> "undefined", elems |-> <<>>]

CriteriaInputs ==
  {NoCriteria}
    \cup {CriteriaInput(i, "undefined", <<>>) : i \in GoodIds \cup {UNDEF, "", NUM}}
    \cup {CriteriaInput(i, "array", t) : i \in GoodIds \cup {UNDEF},
                                         t \in {<<>>, <<"a">>, <<"b">>, <<"a", "b">>}}
    \cup {CriteriaInput(UNDEF, "notarray", <<>>), CriteriaInput(UNDEF, "array", <<NUM>>)}

\* the caller builds the object literal it passes
NewRecord(M, in) ==
  IF ~in.obj THEN [M EXCEPT !.ret = NoObj]
  ELSE LET a == IF in.isArr THEN Fresh(M.arrs) ELSE NotArray
           o == Fresh(M.objs)
       IN [M EXCEPT !.arrs = IF in.isArr THEN M.arrs @@ (a :> in.tags) ELSE M.arrs,
                    !.objs = M.objs @@ (o :> [id |-> in.id, tags |-> a]),
                    !.ret = o]

\* the first occurrences of a sequence's elements, in order
RECURSIVE Dedup(_)
Dedup(q) ==
  IF q = <<>> THEN <<>>
  ELSE LET r == Dedup(SubSeq(q, 1, Len(q) - 1))
       IN IF q[Len(q)] \in Range(r) THEN r ELSE Append(r, q[Len(q)])

IndexOf(q, x) == CHOOSE i \in DOMAIN q : q[i] = x

\* objects the program can still reach, the map's first, then the caller's
LiveObjs(R, h) == Dedup([i \in DOMAIN R.records |-> R.records[i].obj] \o h)

LiveArrs(R, h) ==
  Dedup(SelectSeq([i \in DOMAIN LiveObjs(R, h) |-> R.objs[LiveObjs(R, h)[i]].tags],
                  LAMBDA a : a # NotArray))

\* a record object by value
ValueOf(ob, ar, o) ==
  [id |-> ob[o].id,
   tags |-> IF ob[o].tags = NotArray THEN <<>> ELSE ar[ob[o].tags]]

\* the stored records by value, in insertion order
Content(recs, ob, ar) ==
  [i \in DOMAIN recs |-> [key |-> recs[i].key, rec |-> ValueOf(ob, ar, recs[i].obj)]]

\* what the calls made so far did to each id, after one more call
HistAfter(op, arg, err) ==
  IF err # "none" THEN hist
  ELSE IF op = "add" THEN [hist EXCEPT ![arg.id] = "live"]
  ELSE IF op = "remove" THEN [hist EXCEPT ![arg] = IF @ = "live" THEN "gone" ELSE @]
  ELSE IF op = "clear" THEN [i \in GoodIds |-> IF hist[i] = "live" THEN "gone" ELSE hist[i]]
  ELSE hist

\* the references a call must not share: those of the records in the map
\* and those the caller held before the call
ObjRefs(R) == {R.records[i].obj : i \in DOMAIN R.records} \cup Range(held)

ArrRefs(R) == {R.objs[o].tags : o \in ObjRefs(R)} \ {NotArray}

\* whether an object the caller holds after the call (its argument, or a
\* record of the result) is, or has as its tags array, one of those, or
\* shares with another object the caller holds
Aliased(R, h) ==
  \E i \in DOMAIN h :
    \/ h[i] \in ObjRefs(R)
    \/ R.objs[h[i]].tags \in ArrRefs(R)
    \/ \E j \in DOMAIN h \ {i} :
         \/ h[j] = h[i]
         \/ R.objs[h[j]].tags # NotArray /\ R.objs[h[j]].tags = R.objs[h[i]].tags

\* the state after a call returned or raised: R is the machine it left,
\* h the objects the caller holds afterwards. Unreachable objects are
\* collected and references renumbered in reachability order.
Commit(R, h, op, arg, ret) ==
  \E lo \in {LiveObjs(R, h)}, la \in {LiveArrs(R, h)} :
     /\ records' = [i \in DOMAIN R.records |->
                      [key |-> R.records[i].key, obj |-> IndexOf(lo, R.records[i].obj)]]
     /\ objs' = [i \in DOMAIN lo |->
                   [id |-> R.objs[lo[i]].id,
                    tags |-> IF R.objs[lo[i]].tags = NotArray THEN NotArray
                             ELSE IndexOf(la, R.objs[lo[i]].tags)]]
     /\ arrs' = [i \in DOMAIN la |-> R.arrs[la[i]]]
     /\ held' = [i \in DOMAIN h |-> IndexOf(lo, h[i])]
     /\ muts' = 0
     /\ hist' = HistAfter(op, arg, R.err)
     /\ sop' = op
     /\ sarg' = arg
     /\ sret' = ret
     /\ serr' = R.err
     /\ aliased' = Aliased(R, h)

HeldArg(N) == IF N.ret = NoObj THEN <<>> ELSE <<N.ret>>

Add(in) ==
  \E N \in {NewRecord(Machine, in)} :
    \E R \in {add(N, N.ret)} : Commit(R, HeldArg(N), "add", in, UNDEF)

Update(in) ==
  \E N \in {NewRecord(Machine, in)} :
    \E R \in {update(N, N.ret)} : Commit(R, HeldArg(N), "update", in, UNDEF)

Remove(id) ==
  \E R \in {remove(Machine, id)} : Commit(R, <<>>, "remove", id, R.ret)

Exists(id) ==
  \E R \in {exists(Machine, id)} : Commit(R, <<>>, "exists", id, R.ret)

Size ==
  \E R \in {size(Machine)} : Commit(R, <<>>, "size", UNDEF, R.ret)

Clear ==
  \E R \in {clear(Machine)} : Commit(R, <<>>, "clear", UNDEF, UNDEF)

Query(c) ==
  \E R \in {query(Machine, c)} :
    Commit(R, R.out, "query", c,
           [i \in DOMAIN R.out |-> ValueOf(R.objs, R.arrs, R.out[i])])

\* the caller pushes a tag onto the tags array of a record it holds
MutatePush(i, t) ==
  /\ muts < MaxMutations
  /\ objs[held[i]].tags # NotArray
  /\ Len(arrs[objs[held[i]].tags]) < MaxTags
  /\ arrs' = [arrs EXCEPT ![objs[held[i]].tags] = Append(@, t)]
  /\ muts' = muts + 1
  /\ sop' = "mutate"
  /\ sarg' = UNDEF /\ sret' = UNDEF /\ serr' = "none"
  /\ UNCHANGED <<records, objs, held, hist, aliased>>

\* the caller assigns the id property of a record it holds
MutateId(i, v) ==
  /\ muts < MaxMutations
  /\ objs[held[i]].id # v
  /\ objs' = [objs EXCEPT ![held[i]].id = v]
  /\ muts' = muts + 1
  /\ sop' = "mutate"
  /\ sarg' = UNDEF /\ sret' = UNDEF /\ serr' = "none"
  /\ UNCHANGED <<records, arrs, held, hist, aliased>>

InitStore ==
  /\ records = <<>>
  /\ objs = <<>>
  /\ arrs = <<>>
  /\ held = <<>>
  /\ muts = 0
  /\ hist = [i \in GoodIds |-> "never"]
  /\ sop = "new"
  /\ sarg = UNDEF
  /\ sret = UNDEF
  /\ serr = "none"
  /\ aliased = FALSE

NextStore ==
  \/ \E in \in RecordInputs : Add(in)
  \/ \E in \in RecordInputs : Update(in)
  \/ \E id \in IdVals : Remove(id)
  \/ \E id \in IdVals : Exists(id)
  \/ Size
  \/ Clear
  \/ \E c \in CriteriaInputs : Query(c)
  \/ \E i \in DOMAIN held, t \in GoodTags : MutatePush(i, t)
  \/ \E i \in DOMAIN held, v \in GoodIds : MutateId(i, v)


\* ================================================================ debounce
\* ------------------------------------------------------------------ bounds
Wait == 2          \* opts.wait, in clock ticks
MaxTime == 5       \* the clock stops here
MaxCalls == 2      \* calls to the wrapped callable, the target's own included
MaxRaises == 1     \* invocations in which the target raises

NoTimer == 0       \* timeout === null

\* what a call passes: its arguments and its `this`
CallInputs == {[args |-> "a", ctx |-> "x"], [args |-> "b", ctx |-> "y"]}

\* What the target does when invoked: it may call the wrapped callable
\* again (with `in`), and it returns or raises.
Behaviours ==
  {b \in [reenter : BOOLEAN, in : CallInputs, raises : BOOLEAN] :
     b.reenter \/ b.in.args = "a"}

\* the value the target returns for its receiver and argument
Result(ctx, args) == ctx \o " " \o args

VARIABLES
  now,        \* the clock
  timers,     \* the scheduler's armed timers: [id, due]
  timeout,    \* let timeout: the handle of the last timer set, or NoTimer
  lastArgs,   \* let lastArgs: the recorded arguments, or NULLV
  lastThis,   \* let lastThis: the recorded receiver, or NULLV
  dop,        \* last step: "call", "cancel", "flush", "forceNext", "timer", "tick"
  dret,       \* what the last operation returned
  derr,       \* what it raised, or "none"
  thrown,     \* whether the target raised while the last operation ran
  ncalls,     \* calls to the wrapped callable so far
  nraises,    \* invocations so far in which the target raised
  nfired,     \* invocations of the target so far
  lastFired,  \* the latest invocation: [args, ctx, at, by]
  lastCall,   \* the latest call: [args, ctx, at, re, forced] (re: made by the
              \* target; forced: the caller's first call after a forceNext)
  burstLen,   \* calls in the current burst (each made while a timer was armed)
  burstAt,    \* when the current burst began
  burstFired, \* invocations since the current burst began
  firedSince, \* invocations since the latest call
  ctl         \* control operations performed since the latest call

debVars == <<now, timers, timeout, lastArgs, lastThis, dop, dret, derr, thrown,
             ncalls, nraises, nfired, lastFired, lastCall,
             burstLen, burstAt, burstFired, firedSince, ctl>>

\* the variant of debounce in storage/in-memory.ts keeps one more variable
VARIABLES
  lastCallTime   \* let lastCallTime: Date.now() when invoke last ran, 0 at first

vars == <<storeVars, debVars, lastCallTime>>

\* The closure's variables and the timer table as a machine state;
\* log and calls collect what one operation did.
Closure == [timeout |-> timeout, lastArgs |-> lastArgs, lastThis |-> lastThis,
            timers |-> timers, log |-> <<>>, calls |-> <<>>,
            ret |-> UNDEF, err |-> "none"]

\* setTimeout(invoke) with the delay left out: due at once
setTimeout_noDelay(D) ==
  LET h == CHOOSE i \in 1..(Cardinality(D.timers) + 2) :
             /\ i # D.timeout
             /\ \A t \in D.timers : t.id # i
             /\ \A j \in 1..(i - 1) : j = D.timeout \/ \E t \in D.timers : t.id = j
  IN [D EXCEPT !.timers = @ \cup {[id |-> h, due |-> now]},
               !.ret = h]

\* setTimeout(invoke, 1): one tick whatever the wait
setTimeout_oneTick(D) ==
  LET h == CHOOSE i \in 1..(Cardinality(D.timers) + 2) :
             /\ i # D.timeout
             /\ \A t \in D.timers : t.id # i
             /\ \A j \in 1..(i - 1) : j = D.timeout \/ \E t \in D.timers : t.id = j
  IN [D EXCEPT !.timers = @ \cup {[id |-> h, due |-> now + 1]},
               !.ret = h]

\* setTimeout(invoke, wait): a handle no timer and no variable still uses
setTimeout(D) ==
  LET h == CHOOSE i \in 1..(Cardinality(D.timers) + 2) :
             /\ i # D.timeout
             /\ \A t \in D.timers : t.id # i
             /\ \A j \in 1..(i - 1) : j = D.timeout \/ \E t \in D.timers : t.id = j
  IN [D EXCEPT !.timers = @ \cup {[id |-> h, due |-> now + Wait]},
               !.ret = h]

clearTimeout(D, h) == [D EXCEPT !.timers = {t \in @ : t.id # h}]

\* the wrapped callable without `if (timeout) clearTimeout(timeout)`
debounced_noClear(D, in) ==
  LET D1 == [D EXCEPT !.lastArgs = in.args, !.lastThis = in.ctx,
                      !.calls = Append(@, in)]
      D3 == setTimeout(D1)
  IN [D3 EXCEPT !.timeout = D3.ret, !.ret = UNDEF]

\* the wrapped callable with a leading edge: a call made while no timer
\* handle is kept invokes the target at once
debounced_leading(D, in) ==
  LET D1 == [D EXCEPT !.lastArgs = in.args, !.lastThis = in.ctx,
                      !.calls = Append(@, in)]
      D2 == IF D1.timeout # NoTimer THEN clearTimeout(D1, D1.timeout) ELSE D1
      D3 == setTimeout(D2)
  IN IF D.timeout = NoTimer
       THEN [D1 EXCEPT !.log = Append(@, [args |-> in.args, ctx |-> in.ctx,
                                          raised |-> FALSE]),
                       !.lastArgs = NULLV,
                       !.ret = Result(in.ctx, in.args)]
       ELSE [D3 EXCEPT !.timeout = D3.ret, !.ret = UNDEF]

\* the wrapped callable recording `this` on the first call only
debounced_keepsThis(D, in) ==
  LET D1 == [D EXCEPT !.lastArgs = in.args,
                      !.lastThis = IF @ = NULLV THEN in.ctx ELSE @,
                      !.calls = Append(@, in)]
      D2 == IF D1.timeout # NoTimer THEN clearTimeout(D1, D1.timeout) ELSE D1
      D3 == setTimeout(D2)
  IN [D3 EXCEPT !.timeout = D3.ret, !.ret = UNDEF]

\* the wrapped callable
debounced(D, in) ==
  LET D1 == [D EXCEPT !.lastArgs = in.args, !.lastThis = in.ctx,
                      !.calls = Append(@, in)]
      D2 == IF D1.timeout # NoTimer THEN clearTimeout(D1, D1.timeout) ELSE D1
      D3 == setTimeout(D2)
  IN [D3 EXCEPT !.timeout = D3.ret, !.ret = UNDEF]

\* fn.apply(lastThis, lastArgs): the target runs, behaving as b
fnApply(D, b) ==
  LET D1 == [D EXCEPT !.log = Append(@, [args |-> D.lastArgs, ctx |-> D.lastThis,
                                        raised |-> b.raises])]
      D2 == IF b.reenter THEN debounced(D1, b.in) ELSE D1
  IN IF b.raises THEN [D2 EXCEPT !.err = "TargetError"]
     ELSE [D2 EXCEPT !.ret = Result(D.lastThis, D.lastArgs)]

invoke(D, b) ==
  IF D.lastArgs # NULLV
    THEN LET R == fnApply(D, b)
         IN IF R.err # "none" THEN R
            ELSE [R EXCEPT !.lastArgs = NULLV]
    ELSE [D EXCEPT !.ret = UNDEF]

\* forceNext that swallows what the target raises
forceNext_swallows(D, b) ==
  LET D1 == IF D.timeout # NoTimer
              THEN [clearTimeout(D, D.timeout) EXCEPT !.timeout = NoTimer]
              ELSE D
      R == invoke(D1, b)
  IN [R EXCEPT !.ret = UNDEF, !.err = "none"]

forceNext(D, b) ==
  LET D1 == IF D.timeout # NoTimer
              THEN [clearTimeout(D, D.timeout) EXCEPT !.timeout = NoTimer]
              ELSE D
      R == invoke(D1, b)
  IN IF R.err # "none" THEN R ELSE [R EXCEPT !.ret = UNDEF]

\* cancel without `lastArgs = null`
cancel_keepsArgs(D) ==
  LET D1 == IF D.timeout # NoTimer THEN clearTimeout(D, D.timeout) ELSE D
  IN [D1 EXCEPT !.timeout = NoTimer]

cancel(D) ==
  LET D1 == IF D.timeout # NoTimer THEN clearTimeout(D, D.timeout) ELSE D
  IN [D1 EXCEPT !.timeout = NoTimer, !.lastArgs = NULLV]

flush(D, b) ==
  IF D.timeout # NoTimer
    THEN invoke([clearTimeout(D, D.timeout) EXCEPT !.timeout = NoTimer], b)
    ELSE [D EXCEPT !.ret = UNDEF]

\* ------------------------------------------------------------- environment
\* the behaviours the target may still show within the bounds
Allowed ==
  {b \in Behaviours : /\ b.reenter => ncalls < MaxCalls
                      /\ b.raises => nraises < MaxRaises}

\* a timer the scheduler must run now
Due == {t \in timers : t.due <= now}

\* the state after an operation that left the closure as R; top tells a
\* call made by the caller from one made by the target
Settle(R, op, top) ==
  LET called == Len(R.calls) > 0
      armedBefore == timers # {}
      newBurst == called /\ (~top \/ ~armedBefore)
  IN /\ timers' = R.timers
     /\ timeout' = R.timeout
     /\ lastArgs' = R.lastArgs
     /\ lastThis' = R.lastThis
     /\ dop' = op
     /\ dret' = R.ret
     /\ derr' = R.err
     /\ thrown' = (\E i \in DOMAIN R.log : R.log[i].raised)
     /\ ncalls' = ncalls + Len(R.calls)
     /\ nraises' = nraises + (IF R.err = "none" THEN 0 ELSE 1)
     /\ nfired' = nfired + Len(R.log)
     /\ lastFired' = IF Len(R.log) > 0
                       THEN [args |-> R.log[1].args, ctx |-> R.log[1].ctx,
                             at |-> now, by |-> op]
                       ELSE lastFired
     /\ lastCall' = IF called
                      THEN [args |-> R.calls[1].args, ctx |-> R.calls[1].ctx,
                            at |-> now, re |-> ~top,
                            forced |-> top /\ "forceNext" \in ctl]
                      ELSE lastCall
     /\ burstLen' = IF newBurst THEN 1
                    ELSE IF called THEN burstLen + 1
                    ELSE burstLen
     /\ burstAt' = IF newBurst THEN now ELSE burstAt
     /\ burstFired' = IF newBurst THEN 0 ELSE burstFired + Len(R.log)
     /\ firedSince' = IF called THEN 0 ELSE firedSince + Len(R.log)
     /\ ctl' = IF called THEN {}
               ELSE IF op \in {"cancel", "flush", "forceNext"} THEN ctl \cup {op}
               ELSE ctl
     /\ now' = now

\* Operations run when the scheduler has no timer to run first.
Call(in) ==
  /\ Due = {}
  /\ ncalls < MaxCalls
  /\ \E R \in {debounced(Closure, in)} : Settle(R, "call", TRUE)

Cancel ==
  /\ Due = {}
  /\ \E R \in {cancel(Closure)} : Settle(R, "cancel", FALSE)

Flush(b) ==
  /\ Due = {}
  /\ \E R \in {flush(Closure, b)} : Settle(R, "flush", FALSE)

ForceNext(b) ==
  /\ Due = {}
  /\ \E R \in {forceNext(Closure, b)} : Settle(R, "forceNext", FALSE)

\* the scheduler runs a due timer's callback, invoke
TimerFires(b) ==
  \E t \in Due :
    \E R \in {invoke([Closure EXCEPT !.timers = @ \ {t}], b)} : Settle(R, "timer", FALSE)

\* the clock advances when no timer is due
Tick ==
  /\ Due = {}
  /\ now < MaxTime
  /\ now' = now + 1
  /\ dop' = "tick"
  /\ UNCHANGED <<timers, timeout, lastArgs, lastThis, dret, derr, thrown,
                 ncalls, nraises, nfired, lastFired, lastCall,
                 burstLen, burstAt, burstFired, firedSince, ctl>>

InitDebounce ==
  /\ now = 0
  /\ timers = {}
  /\ timeout = NoTimer
  /\ lastArgs = NULLV
  /\ lastThis = NULLV
  /\ dop = "new"
  /\ dret = UNDEF
  /\ derr = "none"
  /\ thrown = FALSE
  /\ ncalls = 0
  /\ nraises = 0
  /\ nfired = 0
  /\ lastFired = [args |-> UNDEF, ctx |-> UNDEF, at |-> -1, by |-> "none"]
  /\ lastCall = [args |-> UNDEF, ctx |-> UNDEF, at |-> -1, re |-> FALSE,
                 forced |-> FALSE]
  /\ burstLen = 0
  /\ burstAt = -1
  /\ burstFired = 0
  /\ firedSince = 0
  /\ ctl = {}

NextDebounce ==
  \/ \E in \in CallInputs : Call(in)
  \/ Cancel
  \/ \E b \in Allowed : Flush(b)
  \/ \E b \in Allowed : ForceNext(b)
  \/ \E b \in Allowed : TimerFires(b)
  \/ Tick

\* ------------------------------------------ debounce with the bypass
\* Date.now() when the instance is created, in ticks: far more than a wait
Epoch == 10

\* Date.now()
DateNow == now + Epoch

ClosureBypass == [timeout |-> timeout, lastArgs |-> lastArgs, lastThis |-> lastThis,
                  lastCallTime |-> lastCallTime,
                  timers |-> timers, log |-> <<>>, calls |-> <<>>,
                  ret |-> UNDEF, err |-> "none"]

\* invoke and the wrapped callable of the variant call each other: the
\* callable invokes at once when the wait is over, and the target, once
\* invoked, may call the callable again
RECURSIVE invokeBypass(_, _)
debouncedBypass(D, in, b) ==
  LET D1 == [D EXCEPT !.lastArgs = in.args, !.lastThis = in.ctx,
                      !.calls = Append(@, in)]
      D2 == IF D1.timeout # NoTimer THEN clearTimeout(D1, D1.timeout) ELSE D1
      D3 == setTimeout(D2)
  IN IF DateNow - D1.lastCallTime >= Wait
       THEN invokeBypass(D1, b)
       ELSE [D3 EXCEPT !.timeout = D3.ret, !.ret = UNDEF]

invokeBypass(D, b) ==
  LET D0 == [D EXCEPT !.lastCallTime = DateNow]
      D1 == [D0 EXCEPT !.log = Append(@, [args |-> D0.lastArgs, ctx |-> D0.lastThis,
                                          raised |-> b.raises])]
      D2 == IF b.reenter
              THEN debouncedBypass(D1, b.in, [b EXCEPT !.reenter = FALSE])
              ELSE D1
  IN IF D0.lastArgs # NULLV
       THEN IF b.raises THEN [D2 EXCEPT !.err = "TargetError"]
            ELSE [D2 EXCEPT !.ret = Result(D0.lastThis, D0.lastArgs),
                            !.lastArgs = NULLV]
       ELSE [D0 EXCEPT !.ret = UNDEF]

forceNextBypass(D, b) ==
  LET D1 == IF D.timeout # NoTimer
              THEN [clearTimeout(D, D.timeout) EXCEPT !.timeout = NoTimer]
              ELSE D
      R == invokeBypass(D1, b)
  IN IF R.err # "none" THEN R ELSE [R EXCEPT !.ret = UNDEF]

cancelBypass(D) ==
  LET D1 == IF D.timeout # NoTimer THEN clearTimeout(D, D.timeout) ELSE D
  IN [D1 EXCEPT !.timeout = NoTimer, !.lastArgs = NULLV]

flushBypass(D, b) ==
  IF D.timeout # NoTimer
    THEN invokeBypass([clearTimeout(D, D.timeout) EXCEPT !.timeout = NoTimer], b)
    ELSE [D EXCEPT !.ret = UNDEF]

\* the caller's call; the target may be invoked by it, behaving as b
CallBypass(in, b) ==
  /\ Due = {}
  /\ ncalls < MaxCalls
  /\ b.reenter => ncalls + 1 < MaxCalls
  /\ \E R \in {debouncedBypass(ClosureBypass, in, b)} :
       Settle(R, "call", TRUE) /\ lastCallTime' = R.lastCallTime

CancelBypass ==
  /\ Due = {}
  /\ \E R \in {cancelBypass(ClosureBypass)} :
       Settle(R, "cancel", FALSE) /\ lastCallTime' = R.lastCallTime

FlushBypass(b) ==
  /\ Due = {}
  /\ \E R \in {flushBypass(ClosureBypass, b)} :
       Settle(R, "flush", FALSE) /\ lastCallTime' = R.lastCallTime

ForceNextBypass(b) ==
  /\ Due = {}
  /\ \E R \in {forceNextBypass(ClosureBypass, b)} :
       Settle(R, "forceNext", FALSE) /\ lastCallTime' = R.lastCallTime

TimerFiresBypass(b) ==
  \E t \in Due :
    \E R \in {invokeBypass([ClosureBypass EXCEPT !.timers = @ \ {t}], b)} :
      Settle(R, "timer", FALSE) /\ lastCallTime' = R.lastCallTime

TickBypass == Tick /\ UNCHANGED lastCallTime

NextBypass ==
  \/ \E in \in CallInputs, b \in Allowed : CallBypass(in, b)
  \/ CancelBypass
  \/ \E b \in Allowed : FlushBypass(b)
  \/ \E b \in Allowed : ForceNextBypass(b)
  \/ \E b \in Allowed : TimerFiresBypass(b)
  \/ TickBypass

\* ----------------------------------------------------------- specifications
Init == InitStore /\ InitDebounce /\ lastCallTime = 0

\* the store on its own, the debounce controller on its own
SpecStore == Init /\ [][NextStore /\ UNCHANGED <<debVars, lastCallTime>>]_vars

SpecDebounce == Init /\ [][NextDebounce /\ UNCHANGED <<storeVars, lastCallTime>>]_vars

\* the debounce controller used through calls and cancel only
NextDeferred ==
  \/ \E in \in CallInputs : Call(in)
  \/ Cancel
  \/ \E b \in Allowed : TimerFires(b)
  \/ Tick

SpecDeferred == Init /\ [][NextDeferred /\ UNCHANGED <<storeVars, lastCallTime>>]_vars

\* the debounce of storage/in-memory.ts on its own
SpecBypass == Init /\ [][NextBypass /\ UNCHANGED storeVars]_vars

\* ---------------------------------------------------------- store claims
StoreContent == Content(records, objs, arrs)

\* what query() with no criteria returns, by value
QueryAll ==
  LET R == query(Machine, NoCriteria)
  IN [i \in DOMAIN R.out |-> ValueOf(R.objs, R.arrs, R.out[i])]

Distinct(q) == \A i, j \in DOMAIN q : i # j => q[i].id # q[j].id

\* C3: the store holds at most one record per id: query() never returns
\* two records with the same id, a query result never does, size() is the
\* number of records query() returns, and it is 0 right after clear().
C3_OneRecordPerId ==
  /\ Distinct(QueryAll)
  /\ (sop = "query" /\ serr = "none") => Distinct(sret)
  /\ size(Machine).ret = Len(QueryAll)
  /\ sop = "size" => sret = Len(QueryAll)
  /\ sop = "clear" => size(Machine).ret = 0 /\ QueryAll = <<>>

C3_Witness ==
  /\ sop = "query" /\ serr = "none"
  /\ Len(sret) = 2
  /\ hist["1"] = "live" /\ hist["2"] = "live"

\* C4: after add(r) succeeded (r valid, its id not present before), the
\* next call query({id: r.id}) returns exactly one record, with id r.id and
\* tags equal to r.tags element for element, whatever else is stored.
C4_AddThenQueryById ==
  [][(/\ sop = "add" /\ serr = "none"
      /\ sop' = "query"
      /\ sarg' = CriteriaInput(sarg.id, "undefined", <<>>))
     => (/\ serr' = "none"
         /\ sret' = <<[id |-> sarg.id, tags |-> sarg.tags]>>)]_vars

C4_Witness ==
  /\ sop = "add" /\ serr = "none"
  /\ sarg.tags = <<"b", "a">>
  /\ Len(records) = 2
  /\ Len(query(Machine, CriteriaInput(sarg.id, "undefined", <<>>)).out) = 1

\* C8: add(r) with a valid record whose id is already present raises
\* DUPLICATE_ID and leaves the store as it was: same size, and the record
\* stored under that id keeps its tags.
C8_DuplicateAddRejected ==
  [][(/\ sop' = "add"
      /\ sarg' \in ValidRecords
      /\ MapHas(records, sarg'.id))
     => (/\ serr' = "DUPLICATE_ID"
         /\ Len(records') = Len(records)
         /\ StoreContent' = StoreContent)]_vars

C8_Witness ==
  /\ sop = "add" /\ serr = "DUPLICATE_ID"
  /\ \E i \in DOMAIN StoreContent :
       /\ StoreContent[i].key = sarg.id
       /\ StoreContent[i].rec.tags # sarg.tags

\* C9: update(r) with a valid record whose id is absent raises
\* RECORD_NOT_FOUND and mutates nothing: r is not inserted, exists(r.id)
\* is still false, the size and every stored record are as before; also
\* for an id that was stored earlier and has been removed or cleared.
C9_UpdateAbsentRejected ==
  [][(/\ sop' = "update"
      /\ sarg' \in ValidRecords
      /\ ~MapHas(records, sarg'.id))
     => (/\ serr' = "RECORD_NOT_FOUND"
         /\ exists(MachineOf(records', objs', arrs'), sarg'.id).ret = FALSE
         /\ Len(records') = Len(records)
         /\ StoreContent' = StoreContent)]_vars

C9_Witness ==
  /\ sop = "update" /\ serr = "RECORD_NOT_FOUND"
  /\ hist[sarg.id] = "gone"
  /\ Len(records) = 1

\* C10: for a well-formed id, remove(id) does not raise, returns true
\* exactly when a record with that id is present at the call, that is when
\* the id was added and not removed or cleared since, and deletes exactly
\* that record.
C10_RemoveTrueOncePerAdd ==
  [][(sop' = "remove" /\ sarg' \in GoodIds)
     => (/\ serr' = "none"
         /\ sret' = MapHas(records, sarg')
         /\ sret' = (hist[sarg'] = "live")
         /\ StoreContent' = SelectSeq(StoreContent, LAMBDA e : e.key # sarg'))]_vars

C10_Witness ==
  /\ sop = "remove" /\ serr = "none"
  /\ sret = FALSE
  /\ hist[sarg] = "gone"
  /\ Len(records) = 1

\* the stored records by value, in the store's order
StoredValues == [i \in DOMAIN StoreContent |-> StoreContent[i].rec]

\* criteria the store accepts
ValidCriteria == {c \in CriteriaInputs : ~c.given \/ validateQueryCriteria(c) = "OK"}

\* the claim's reading of a match: the id, when one is given, is the
\* record's, and every tag asked for, when tags are given, is in its tags
Wanted(r, c) ==
  /\ (c.given /\ c.id # UNDEF) => r.id = c.id
  /\ (c.given /\ c.tkind = "array") => \A i \in DOMAIN c.elems : c.elems[i] \in Range(r.tags)

\* C11: query(criteria) with valid criteria does not raise and returns
\* exactly the stored records whose id is criteria.id (when an id is given)
\* and whose tags contain every element of criteria.tags (when tags are
\* given): each matching record once, no other record; query({tags: []})
\* and query() return every stored record.
C11_QueryReturnsExactlyTheMatches ==
  [][(sop' = "query" /\ sarg' \in ValidCriteria)
     => (/\ serr' = "none"
         /\ Range(sret') = {r \in Range(StoredValues) : Wanted(r, sarg')}
         /\ Len(sret') = Cardinality({r \in Range(StoredValues) : Wanted(r, sarg')})
         /\ sarg' \in {NoCriteria, CriteriaInput(UNDEF, "array", <<>>)}
              => /\ Range(sret') = Range(StoredValues)
                 /\ Len(sret') = Len(records))]_vars

C11_Witness ==
  /\ sop = "query" /\ serr = "none"
  /\ sarg = CriteriaInput(UNDEF, "array", <<"a", "b">>)
  /\ Len(records) = 2
  /\ \E i \in DOMAIN StoredValues : StoredValues[i].tags = <<"a">>
  /\ Len(sret) = 1
  /\ sret[1].tags = <<"b", "a">>

\* what query() and exists(id), for each id a caller may ask about, return
\* in a store M
QueryAllOf(M) ==
  LET R == query(M, NoCriteria)
  IN [i \in DOMAIN R.out |-> ValueOf(R.objs, R.arrs, R.out[i])]

ExistsAllOf(M) == [i \in IdVals |-> exists(M, i).ret]

\* C12: a mutation the caller makes to an object it holds (a record a
\* query returned, or the record it passed to add or update, or the tags
\* array of either) changes neither the stored records nor what query(),
\* exists(id) and size() return afterwards; and no call leaves the caller
\* holding an object or a tags array that the store holds too, that a
\* result it held before holds, or that another record of the same result
\* holds.
C12_CopyIsolation ==
  [][/\ sop' = "mutate" =>
          /\ Content(records', objs', arrs') = StoreContent
          /\ QueryAllOf(MachineOf(records', objs', arrs')) = QueryAllOf(Machine)
          /\ ExistsAllOf(MachineOf(records', objs', arrs')) = ExistsAllOf(Machine)
          /\ size(MachineOf(records', objs', arrs')).ret = size(Machine).ret
     /\ ~aliased']_vars

C12_Witness ==
  /\ sop = "mutate"
  /\ Len(held) = 2
  /\ Len(records) = 2
  /\ \E i \in DOMAIN held, j \in DOMAIN records :
       /\ objs[held[i]].id = records[j].key
       /\ arrs[objs[held[i]].tags] # arrs[objs[records[j].obj].tags]

\* the codes of the StorageErrors that validation raises
RecordErrors == {"INVALID_RECORD", "INVALID_ID", "INVALID_TAGS", "INVALID_TAG_TYPE"}

CriteriaErrors == {"INVALID_CRITERIA_ID", "INVALID_CRITERIA_TAGS", "INVALID_CRITERIA_TAG_TYPE"}

\* C13: add and update with an invalid record (no object, id empty,
\* whitespace-only or not a string, tags not an array, a tag that is not a
\* string), query with invalid criteria and remove with a malformed id each
\* raise a StorageError with a validation code and leave the stored records
\* and their tags exactly as they were, whether or not the id involved is
\* stored.
C13_ValidationBeforeMutation ==
  [][/\ (sop' \in {"add", "update"} /\ sarg' \in InvalidRecords) =>
          /\ serr' \in RecordErrors
          /\ Content(records', objs', arrs') = StoreContent
     /\ (sop' = "query" /\ sarg' \in CriteriaInputs \ ValidCriteria) =>
          /\ serr' \in CriteriaErrors
          /\ Content(records', objs', arrs') = StoreContent
     /\ (sop' = "remove" /\ sarg' \in IdVals \ GoodIds) =>
          /\ serr' = "INVALID_ID"
          /\ Content(records', objs', arrs') = StoreContent]_vars

C13_Witness ==
  /\ sop = "update" /\ serr = "INVALID_TAG_TYPE"
  /\ sarg = RecordInput("2", TRUE, <<"a", NUM>>)
  /\ \E i \in DOMAIN StoreContent :
       StoreContent[i].key = "2" /\ StoreContent[i].rec.tags = <<"b">>

\* C15: exists(id) never raises and leaves the store as it was; it returns
\* true exactly when a record with that id is stored, that is when the id
\* was added and not removed or cleared since, and false for every
\* malformed id (empty, whitespace-only, not a string); remove with a
\* malformed id raises INVALID_ID.
C15_ExistsIsLenient ==
  [][/\ sop' = "exists" =>
          /\ serr' = "none"
          /\ Content(records', objs', arrs') = StoreContent
          /\ sret' = (\E i \in DOMAIN StoreContent : StoreContent[i].rec.id = sarg')
          /\ sarg' \in GoodIds => sret' = (hist[sarg'] = "live")
          /\ sarg' \notin GoodIds => sret' = FALSE
     /\ (sop' = "remove" /\ sarg' \notin GoodIds) => serr' = "INVALID_ID"]_vars

C15_Witness ==
  /\ sop = "exists" /\ serr = "none"
  /\ sarg = " " /\ sret = FALSE
  /\ Len(records) = 2

\* the ids stored in a content, and the tags stored under one of them
IdsOf(content) == {content[i].rec.id : i \in DOMAIN content}

TagsOf(content, id) ==
  (CHOOSE e \in Range(content) : e.rec.id = id).rec.tags

\* C16: a successful update(r) leaves under r.id exactly r.tags, element
\* for element, and nothing else changes: size() and the set of stored ids
\* are as before and every other record keeps its tags.
C16_UpdateReplacesOnlyItsRecord ==
  [][(sop' = "update" /\ serr' = "none") =>
       /\ size(MachineOf(records', objs', arrs')).ret = size(Machine).ret
       /\ IdsOf(Content(records', objs', arrs')) = IdsOf(StoreContent)
       /\ sarg'.id \in IdsOf(StoreContent)
       /\ \A id \in IdsOf(StoreContent) :
            TagsOf(Content(records', objs', arrs'), id) =
              IF id = sarg'.id THEN sarg'.tags ELSE TagsOf(StoreContent, id)]_vars

C16_Witness ==
  /\ sop = "update" /\ serr = "none"
  /\ sarg.tags = <<"b">>
  /\ Len(records) = 2
  /\ TagsOf(StoreContent, sarg.id) = <<"b">>
  /\ \E id \in IdsOf(StoreContent) : TagsOf(StoreContent, id) = <<"a", "a">>
  /\ hist[sarg.id] = "live"

\* ------------------------------------------------------- debounce claims
\* the wait of the latest call is over and its timer, if any, has run
Elapsed == now >= lastCall.at + Wait /\ Due = {}

\* the latest call, as the invocation the timer owes it
OwedToLastCall ==
  [args |-> lastCall.args, ctx |-> lastCall.ctx,
   at |-> lastCall.at + Wait, by |-> "timer"]

\* no timer armed and no call recorded
Idle == timers = {} /\ lastArgs = NULLV

\* what later operations can depend on or show
Obs == <<timers, lastArgs, lastThis, nfired>>

\* C1: in a burst of two or more calls, each made while the previous call's
\* timer was still armed, with no cancel, flush or forceNext, every later
\* call leaves exactly one timer armed, due Wait after it; the target is
\* not invoked before Wait has passed since the last call, and is then
\* invoked exactly once for the whole burst, Wait after the last call,
\* with the last call's arguments and receiver.
C1_BurstFiresOnceAfterLastCall ==
  (burstLen >= 2 /\ ctl = {}) =>
    /\ ~Elapsed => /\ burstFired = 0
                   /\ timers = {[id |-> timeout, due |-> lastCall.at + Wait]}
    /\ Elapsed => /\ burstFired = 1
                  /\ lastFired = OwedToLastCall

C1_Witness ==
  /\ burstLen = 2 /\ ctl = {}
  /\ burstAt = 0 /\ lastCall.at = 1
  /\ lastCall.args = "b"
  /\ burstFired = 1
  /\ lastFired.args = "b" /\ lastFired.at = 1 + Wait
  /\ now = 1 + Wait

\* C2: a single call made by the caller while no timer is armed returns
\* without invoking the target; the target is not invoked before Wait has
\* passed, and is invoked exactly once, Wait after the call, with that
\* call's arguments and receiver.
C2_SingleCallFiresAfterWait ==
  (burstLen = 1 /\ ~lastCall.re /\ ctl = {}) =>
    /\ dop = "call" => derr = "none" /\ dret = UNDEF /\ firedSince = 0
    /\ ~Elapsed => firedSince = 0
    /\ Elapsed => /\ firedSince = 1
                  /\ lastFired = OwedToLastCall

C2_Witness ==
  /\ burstLen = 1 /\ ~lastCall.re /\ ctl = {}
  /\ ncalls = 1
  /\ lastCall.at = 1
  /\ now = 1 + Wait
  /\ firedSince = 1
  /\ lastFired.args = lastCall.args

C6_FlushInvokesIffPending ==
  [][/\ (dop' = "flush" /\ timers # {}) =>
          /\ nfired' = nfired + 1
          /\ lastFired' = [args |-> lastArgs, ctx |-> lastThis, at |-> now, by |-> "flush"]
          /\ derr' = "none" => dret' = Result(lastThis, lastArgs)
          /\ ncalls' = ncalls => timers' = {}
     /\ (dop' = "flush" /\ timers = {}) =>
          /\ nfired' = nfired
          /\ dret' = UNDEF /\ derr' = "none"
          /\ Obs' = Obs]_vars

\* C7 (as claimed): forceNext() while a call is recorded and its timer
\* armed invokes the target at once, exactly once, with the recorded
\* arguments and receiver, and leaves the controller idle; the forced call is not invoked again before
\* the caller's next call; forceNext() with no recorded call invokes
\* nothing.
C7_ForceNextReturnsToIdle ==
  [][/\ (dop' = "forceNext" /\ timers # {} /\ lastArgs # NULLV /\ ncalls' = ncalls) =>
          /\ nfired' = nfired + 1
          /\ lastFired' = [args |-> lastArgs, ctx |-> lastThis, at |-> now, by |-> "forceNext"]
          /\ Idle'
     /\ ("forceNext" \in ctl /\ firedSince > 0 /\ dop' # "call") => nfired' = nfired
     /\ (dop' = "forceNext" /\ lastArgs = NULLV) => nfired' = nfired]_vars

\* C14: every invocation of the target, by the timer, flush or forceNext,
\* passes the arguments and the receiver of the latest call made before
\* it: never those of a superseded call, never the arguments of one call
\* with the receiver of another.
C14_DeliversLatestCallOnly ==
  [][nfired' > nfired =>
       /\ nfired' = nfired + 1
       /\ dop' \in {"timer", "flush", "forceNext"}
       /\ lastFired'.args = lastCall.args
       /\ lastFired'.ctx = lastCall.ctx
       /\ [args |-> lastFired'.args, ctx |-> lastFired'.ctx] \in CallInputs]_vars

C14_Witness ==
  /\ ncalls = 2 /\ burstLen = 2
  /\ nfired = 1
  /\ dop = "flush"
  /\ lastCall.args = "b" /\ lastCall.ctx = "y"
  /\ lastFired.args = "b" /\ lastFired.ctx = "y"

Pending == Cardinality(timers) = 1 /\ lastArgs # NULLV

\* C19 (as claimed): in every reachable state at most one timer is armed,
\* and the controller is either idle (no timer armed, no call recorded) or
\* pending (exactly one timer armed, a call recorded): no timer is armed
\* without a recorded call and no call stays recorded without a timer.
C19_IdleOrPending ==
  /\ Cardinality(timers) <= 1
  /\ Idle \/ Pending

\* C20: when the controller is used through calls and cancels only, two
\* consecutive invocations of the target are at least Wait apart, and the
\* target has never been invoked more often than the wrapped callable was
\* called.
C20_RateBound ==
  [][nfired' > nfired =>
       /\ nfired >= 1 => now - lastFired.at >= Wait
       /\ nfired' <= ncalls']_vars

C20_Witness ==
  /\ nfired = 2 /\ ncalls = 2
  /\ "cancel" \notin ctl
  /\ lastFired.at = 2 * Wait
  /\ dop = "timer"

\* C21 (as claimed): the call a call recorded is delivered at most once,
\* also when the target raises: an invocation that is not followed by a
\* new call leaves no call recorded, and once the target has been invoked
\* since the latest call, no timer firing, flush or forceNext invokes it
\* again before a new call is made.
C21_DeliveredAtMostOnce ==
  [][/\ (nfired' > nfired /\ ncalls' = ncalls) => lastArgs' = NULLV
     /\ (firedSince >= 1 /\ ncalls' = ncalls) => nfired' = nfired]_vars

\* C22 (as claimed): a call the target makes to the wrapped callable while
\* it is being invoked is recorded like any other call, and with no later
\* call, cancel, flush or forceNext the target is invoked for it exactly
\* once, by the timer it armed, Wait after it, with its arguments and
\* receiver.
C22_ReentrantCallIsDelivered ==
  (lastCall.re /\ ctl = {}) =>
    /\ ~Elapsed => /\ lastArgs = lastCall.args
                   /\ lastThis = lastCall.ctx
                   /\ firedSince = 0
    /\ Elapsed => /\ firedSince = 1
                  /\ lastFired = OwedToLastCall

\* at least Wait has passed since the target last fired, or it never fired
WaitOver == nfired = 0 \/ now - lastFired.at >= Wait

\* C23 (as claimed): in the variant with the bypass, a call by the caller
\* invokes the target at once, with its own arguments and receiver,
\* exactly when at least Wait has passed since the target last fired (or
\* it never fired), and otherwise invokes nothing and arms a timer of
\* Wait; so operations that invoked nothing have no effect on which path
\* a call takes.
C23_BypassIffWaitOver ==
  [][dop' = "call" =>
       /\ WaitOver =>
            /\ nfired' = nfired + 1
            /\ lastFired' = [args |-> lastCall'.args, ctx |-> lastCall'.ctx,
                             at |-> now, by |-> "call"]
       /\ ~WaitOver =>
            /\ nfired' = nfired
            /\ timers' = {[id |-> timeout', due |-> now + Wait]}]_vars

====
